---- MODULE Spec2Model ----
(***************************************************************************)
(* BrandGuard backend (src/src/index.js, latest revision, lines 293-504):  *)
(* an express app with three routes that drive a headless Chromium through *)
(* Playwright.  Every await of a handler is one step of the model; the     *)
(* engine (launch, newContext, goto, evaluate, screenshot, close ...) is   *)
(* the environment and each of its calls may return or throw.              *)
(***************************************************************************)
EXTENDS Integers, Sequences, FiniteSets, TLC

\* ------------------------------------------------------------------ bounds
MaxFonts     == 5    \* largest number of distinct font families a page yields
MaxDistorted == 5    \* largest number of distorted images a page yields
MaxFaults    == 1    \* most engine calls that fail in the concurrent runs
MaxYield     == 1    \* most families and images of a page in the concurrent runs
MaxLen       == 3    \* longest font-family string given to normalize

\* --------------------------------------------------------------- constants
maxFamilies  == 3        \* const maxFamilies = 3
NavTimeout   == 60000    \* timeout: 60000 of both page.goto calls
ScoreFloor   == 50       \* Math.max(50, ...)

\* ------------------------------------------------------------------ inputs
Requests  == {"r1", "r2"}                 \* request slots of the server
Endpoints == {"health", "screenshot", "analyze"}
Undefined == "<undefined>"                \* a body field that is not there
Urls      == {Undefined, "", "https://site.test/"}
ApiKeys   == {"", "k1"}                   \* process.env.API_KEY ("" = not set)
Headers   == {"", "Bearer k1", "Bearer k2"}
Statuses  == {200, 404}                   \* HTTP statuses a navigation may see

VARIABLES
    env_API_KEY,  \* process.env.API_KEY, fixed at startup
    req,          \* req[r]: the request (endpoint, Authorization header, url)
    pc,           \* pc[r]: the await the handler of r is suspended at
    call,         \* call[r]: which withPage call of the handler is running
    browser,      \* browser[r]: the local `browser` of the running withPage
    browsers,     \* every browser process ever launched: owner and state
    trace,        \* trace[r]: every engine call of r with its outcome
    err,          \* err[r]: the exception in flight inside withPage's try
    e,            \* e[r]: the error bound by the outer catch of /v1/analyze
    fonts,        \* fonts[r]: fonts.length of the fonts evaluation
    ret,          \* ret[r]: <<value returned by fn>>, until withPage returns
    responses,    \* responses[r]: the responses written to res
    family,       \* a computed font-family value handed to normalize
    normalized    \* what normalize gave for it, and for its own result

serverVars == <<env_API_KEY, req, pc, call, browser, browsers, trace, err, e,
                fonts, ret, responses>>
vars == <<env_API_KEY, req, pc, call, browser, browsers, trace, err, e, fonts,
          ret, responses, family, normalized>>

NoReq == [endpoint |-> "", authorization |-> "", url |-> Undefined]

Max(a, b) == IF a >= b THEN a ELSE b

\* ----------------------------------------------------------- engine values
\* What page.goto gives: it throws, resolves to null, or to a response.
GotoThrow == [kind |-> "throw", status |-> 0]
GotoNull  == [kind |-> "null", status |-> 0]
GotoResponse(s) == [kind |-> "response", status |-> s]
GotoOutcomes == {GotoThrow, GotoNull} \cup {GotoResponse(s) : s \in Statuses}

\* r && r.ok(): a response whose status is 2xx
IsOk(r) == r.kind = "response" /\ r.status \in 200..299

\* The message of the error an engine call rejects with.
EngineError(op) == "playwright: " \o op \o " failed"

\* One engine call in the trace of a request.
Ev(op, session, kind) ==
    [op |-> op, session |-> session, kind |-> kind, status |-> 0,
     waitUntil |-> "", timeout |-> 0]
GotoEv(session, waitUntil, r) ==
    [op |-> "goto", session |-> session, kind |-> r.kind, status |-> r.status,
     waitUntil |-> waitUntil, timeout |-> NavTimeout]

Log(r, ev) == trace' = [trace EXCEPT ![r] = Append(@, ev)]

\* buf.toString('base64') of the JPEG the engine captured
ScreenshotBase64 == "/9j/4AAQSkZJRg=="
PageTitle == "Site"

\* -------------------------------------------------------------- middleware
\* app.use(cors()); app.use(express.json()); app.use(logger): each calls
\* next(), none of them looks at API_KEY or at the Authorization header.
MiddlewareChainPasses(request) == TRUE

\* ------------------------------------------------------------------- Init
InitServer(clients) ==
    /\ env_API_KEY \in ApiKeys
    /\ req = [r \in Requests |-> NoReq]
    /\ pc = [r \in Requests |-> IF r \in clients THEN "idle" ELSE "absent"]
    /\ call = [r \in Requests |-> "none"]
    /\ browser = [r \in Requests |-> 0]
    /\ browsers = <<>>
    /\ trace = [r \in Requests |-> <<>>]
    /\ err = [r \in Requests |-> "none"]
    /\ e = [r \in Requests |-> "none"]
    /\ fonts = [r \in Requests |-> 0]
    /\ ret = [r \in Requests |-> <<>>]
    /\ responses = [r \in Requests |-> <<>>]

\* A JavaScript string, as the sequence of its characters, or null.
Str(chars) == [null |-> FALSE, chars |-> chars]
Null == [null |-> TRUE, chars |-> <<>>]

InitWith(clients) ==
    /\ InitServer(clients)
    /\ family = Null
    /\ normalized = <<>>

Init == InitWith({"r1"})

\* --------------------------------------------------------------- responses
Respond(r, body) ==
    /\ responses' = [responses EXCEPT ![r] = Append(@, body)]
    /\ pc' = [pc EXCEPT ![r] = "done"]

JsonError(status, code, message) ==
    [status |-> status, code |-> code, message |-> message]

\* `La pagina bloqueo el analisis DOM (${e.message}). Se adjunta ...`
BlockedMessage(m) ==
    "La pagina bloqueo el analisis DOM (" \o m
        \o "). Se adjunta mini-captura para auditoria visual."

\* res.status(400).json({ code: 'bad_request', message })
BadRequest(message) == JsonError(400, "bad_request", message)

\* res.json({ ok: true })
HealthOk == [status |-> 200, ok |-> TRUE]

\* res.json({ ok: true, ...result })
ScreenshotOk(result) ==
    [status |-> 200, ok |-> TRUE, title |-> result.title,
     image_base64 |-> result.image_base64, meta |-> result.meta]

\* Mutation: the analyze handler's catch pasted into /v1/screenshot.
ScreenshotFailed_AnalyzeCode(m) == JsonError(500, "analyze_failed", m)

\* res.status(500).json({ code: 'screenshot_failed', message: e.message })
ScreenshotFailed(m) == JsonError(500, "screenshot_failed", m)

\* res.json(out)
AnalyzeOk(out) ==
    [status |-> 200, score |-> out.score, byCategory |-> out.byCategory,
     findings |-> out.findings, meta |-> out.meta]

\* Mutation: res.status(502) left out, so the fallback answers 200.
AnalyzeBlocked_NoStatus(m, fallback) ==
    [status |-> 200, code |-> "analyze_blocked", message |-> BlockedMessage(m),
     screenshot_base64 |-> fallback]

\* res.status(502).json({ code: 'analyze_blocked', message, screenshot_base64 })
AnalyzeBlocked(m, fallback) ==
    [status |-> 502, code |-> "analyze_blocked", message |-> BlockedMessage(m),
     screenshot_base64 |-> fallback]

\* res.status(500).json({ code: 'analyze_failed', message: e2.message })
AnalyzeFailed(m2) == JsonError(500, "analyze_failed", m2)

\* ------------------------------------------------------------------ scorer
\* Mutation: the inner Math.max(0, ...) left out.
Score_NoInnerMax(fontCount, distortedCount) ==
    Max(ScoreFloor, 100 - distortedCount * 10 - (fontCount - maxFamilies) * 5)

\* Math.max(50, 100 - distorted.length*10 - Math.max(0, fonts.length-3)*5)
Score(fontCount, distortedCount) ==
    Max(ScoreFloor,
        100 - distortedCount * 10 - Max(0, fontCount - maxFamilies) * 5)

\* Mutation: >= for >, so three families already count as too many.
ByCategory_AtLimit(fontCount, distortedCount) ==
    [typography |-> IF fontCount >= maxFamilies THEN 70 ELSE 95,
     logos |-> IF distortedCount # 0 THEN 65 ELSE 95]

\* byCategory: { typography: fonts.length > 3 ? 70 : 95,
\*               logos: distorted.length ? 65 : 95 }
ByCategory(fontCount, distortedCount) ==
    [typography |-> IF fontCount > maxFamilies THEN 70 ELSE 95,
     logos |-> IF distortedCount # 0 THEN 65 ELSE 95]

\* Mutation: the B1 finding pushed after the loop over the distorted images.
Findings_FontLast(fontCount, distortedCount) ==
    [i \in 1..distortedCount |->
          [id |-> "A1", severity |-> "high", evidence |-> i]]
    \o (IF fontCount > maxFamilies
        THEN <<[id |-> "B1", severity |-> "medium", evidence |-> fontCount]>>
        ELSE <<>>)

\* findings: B1 first when there are too many families, then one A1 per
\* distorted image in the order the evaluation returned them.
Findings(fontCount, distortedCount) ==
    (IF fontCount > maxFamilies
        THEN <<[id |-> "B1", severity |-> "medium", evidence |-> fontCount]>>
        ELSE <<>>)
    \o [i \in 1..distortedCount |->
          [id |-> "A1", severity |-> "high", evidence |-> i]]

AnalysisResult(url, status, fontCount, distortedCount) ==
    [score |-> Score(fontCount, distortedCount),
     byCategory |-> ByCategory(fontCount, distortedCount),
     findings |-> Findings(fontCount, distortedCount),
     meta |-> [url |-> url, status |-> status, fontsDetected |-> fontCount,
               distortedImages |-> distortedCount]]

\* --------------------------------------------------------------- navigator
FirstWait  == "networkidle"
SecondWait == "domcontentloaded"

\* Mutation: only an exception of the first page.goto leads to the second.
NeedsSecondAttempt_OnlyOnThrow(r1) == r1.kind = "throw"

\* safeGoto goes on to its second page.goto unless `r1 && r1.ok()`;
\* an exception of the first page.goto is swallowed by catch (_) {}.
NeedsSecondAttempt(r1) == r1.kind = "throw" \/ ~IsOk(r1)

\* Mutation: the message without the status, as an earlier revision had it.
NavErrorMessage_NoStatus(r2) == "No se pudo cargar la URL"

\* `No se pudo cargar la URL (status=${r2?.status() ?? 'desconocido'})`
NavErrorMessage(r2) ==
    "No se pudo cargar la URL (status="
        \o (IF r2.kind = "response" THEN ToString(r2.status) ELSE "desconocido")
        \o ")"

\* Mutation: the ok check of the second response left out.
SecondAttemptError_NoOkCheck(r2) ==
    IF r2.kind = "throw" THEN EngineError("goto") ELSE "none"

\* What the second page.goto makes safeGoto throw ("none": it returns r2).
\* The second call is outside any try: its own exception escapes as it is.
SecondAttemptError(r2) ==
    IF r2.kind = "throw" THEN EngineError("goto")
    ELSE IF ~IsOk(r2) THEN NavErrorMessage(r2)
    ELSE "none"

\* The goto calls made on the page of browser b, in order.
GotosOf(r, b) ==
    SelectSeq(trace[r], LAMBDA ev : ev.op = "goto" /\ ev.session = b)

\* ----------------------------------------------------- handler catch blocks
\* The frame of withPage is gone once it has returned or thrown.
DropFrame(r) ==
    /\ browser' = [browser EXCEPT ![r] = 0]
    /\ err' = [err EXCEPT ![r] = "none"]
    /\ ret' = [ret EXCEPT ![r] = <<>>]
    /\ fonts' = [fonts EXCEPT ![r] = 0]

\* Mutation: the catch starts withPage again instead of answering.
ScreenshotCatch_Relaunch(r, m) ==
    /\ pc' = [pc EXCEPT ![r] = "launch"]
    /\ UNCHANGED <<call, e, responses>>

\* /v1/screenshot: catch (e) { res.status(500)... }
ScreenshotCatch(r, m) ==
    /\ Respond(r, ScreenshotFailed(m))
    /\ call' = [call EXCEPT ![r] = "none"]
    /\ UNCHANGED e

\* /v1/analyze: catch (e) { try { fallback = await withPage(...)
AnalyzeCatch(r, m) ==
    /\ e' = [e EXCEPT ![r] = m]
    /\ call' = [call EXCEPT ![r] = "fallback"]
    /\ pc' = [pc EXCEPT ![r] = "launch"]
    /\ UNCHANGED responses

\* Mutation: the inner catch swallows e2 and writes no response.
AnalyzeFallbackCatch_Silent(r, m2) ==
    /\ pc' = [pc EXCEPT ![r] = "done"]
    /\ call' = [call EXCEPT ![r] = "none"]
    /\ UNCHANGED <<e, responses>>

\* /v1/analyze: catch (e2) { return res.status(500)... }
AnalyzeFallbackCatch(r, m2) ==
    /\ Respond(r, AnalyzeFailed(m2))
    /\ call' = [call EXCEPT ![r] = "none"]
    /\ UNCHANGED e

\* withPage rejected with message m: control is in the handler's catch.
WithPageRejected(r, m) ==
    IF req[r].endpoint = "screenshot" THEN ScreenshotCatch(r, m)
    ELSE IF call[r] = "primary" THEN AnalyzeCatch(r, m)
    ELSE AnalyzeFallbackCatch(r, m)

\* withPage returned v: the handler writes its success response.
WithPageResolved(r, v) ==
    /\ Respond(r, IF req[r].endpoint = "screenshot" THEN ScreenshotOk(v)
                  ELSE IF call[r] = "primary" THEN AnalyzeOk(v)
                  ELSE AnalyzeBlocked(e[r], v))
    /\ call' = [call EXCEPT ![r] = "none"]
    /\ UNCHANGED e

\* ---------------------------------------------------------------- handlers
\* Mutation: only the empty string is rejected.
Falsy_OnlyEmpty(u) == u = ""

\* `!url` / `!target?.value`: the field is missing or an empty string
Falsy(u) == u \in {Undefined, ""}

\* A request comes in and passes the middleware chain.
Receive(r, endpoint) ==
    /\ pc[r] = "idle"
    /\ \E h \in Headers, u \in Urls :
          /\ req' = [req EXCEPT ![r] =
                        [endpoint |-> endpoint, authorization |-> h, url |-> u]]
          /\ MiddlewareChainPasses(req'[r])

Frame(r) ==
    UNCHANGED <<env_API_KEY, browser, browsers, trace, err, e, fonts, ret,
                family, normalized>>

\* Mutation: the health route probes the engine by starting a session.
HealthHandler_Probe(r) ==
    /\ Receive(r, "health")
    /\ call' = [call EXCEPT ![r] = "primary"]
    /\ pc' = [pc EXCEPT ![r] = "launch"]
    /\ UNCHANGED responses
    /\ Frame(r)

\* app.get('/v1/health')
HealthHandler(r) ==
    /\ Receive(r, "health")
    /\ Respond(r, HealthOk)
    /\ UNCHANGED call
    /\ Frame(r)

\* app.post('/v1/screenshot'), up to its first await
ScreenshotHandler(r) ==
    /\ Receive(r, "screenshot")
    /\ IF Falsy(req'[r].url)
          THEN /\ Respond(r, BadRequest("url requerida"))
               /\ UNCHANGED call
          ELSE /\ call' = [call EXCEPT ![r] = "primary"]
               /\ pc' = [pc EXCEPT ![r] = "launch"]
               /\ UNCHANGED responses
    /\ Frame(r)

\* app.post('/v1/analyze'), up to its first await
AnalyzeHandler(r) ==
    /\ Receive(r, "analyze")
    /\ IF Falsy(req'[r].url)
          THEN /\ Respond(r, BadRequest("target.value requerido"))
               /\ UNCHANGED call
          ELSE /\ call' = [call EXCEPT ![r] = "primary"]
               /\ pc' = [pc EXCEPT ![r] = "launch"]
               /\ UNCHANGED responses
    /\ Frame(r)

\* ---------------------------------------------------------------- withPage
\* Mutation: withPage takes a browser that is already open, if there is one,
\* instead of launching its own (a pool of sessions).
Launch_Pooled(r) ==
    /\ pc[r] = "launch"
    /\ LET open == {b \in DOMAIN browsers : browsers[b].state = "open"}
           b == IF open = {} THEN Len(browsers) + 1 ELSE CHOOSE x \in open : TRUE
       IN  /\ browsers' = IF open = {}
                             THEN Append(browsers, [owner |-> r, state |-> "open"])
                             ELSE browsers
           /\ browser' = [browser EXCEPT ![r] = b]
           /\ Log(r, Ev("launch", b, "ok"))
           /\ pc' = [pc EXCEPT ![r] = "newContext"]
    /\ UNCHANGED <<env_API_KEY, req, call, e, responses, err, fonts, ret,
                   family, normalized>>

\* const browser = await chromium.launch(...)
Launch(r) ==
    /\ pc[r] = "launch"
    /\ \E ok \in BOOLEAN :
          IF ok
          THEN /\ browsers' = Append(browsers, [owner |-> r, state |-> "open"])
               /\ browser' = [browser EXCEPT ![r] = Len(browsers) + 1]
               /\ Log(r, Ev("launch", Len(browsers) + 1, "ok"))
               /\ pc' = [pc EXCEPT ![r] = "newContext"]
               /\ UNCHANGED <<call, e, responses>>
          ELSE /\ Log(r, Ev("launch", 0, "throw"))
               /\ WithPageRejected(r, EngineError("launch"))
               /\ UNCHANGED <<browsers, browser>>
    /\ UNCHANGED <<env_API_KEY, req, err, fonts, ret, family, normalized>>

\* The awaits between the launch and the try: newContext, addInitScript,
\* setExtraHTTPHeaders, newPage.  None is inside try/finally, so an
\* exception of any of them leaves withPage without browser.close().
FnEntry(r) == IF req[r].endpoint = "screenshot" THEN "setViewportSize" ELSE "goto1"

SetupStep(r, op, next) ==
    /\ pc[r] = op
    /\ \E ok \in BOOLEAN :
          IF ok
          THEN /\ Log(r, Ev(op, browser[r], "ok"))
               /\ pc' = [pc EXCEPT ![r] = next]
               /\ UNCHANGED <<call, e, responses, browser, err, ret, fonts>>
          ELSE /\ Log(r, Ev(op, browser[r], "throw"))
               /\ WithPageRejected(r, EngineError(op))
               /\ DropFrame(r)
    /\ UNCHANGED <<env_API_KEY, req, browsers, family, normalized>>

NewContext(r) == SetupStep(r, "newContext", "addInitScript")
AddInitScript(r) == SetupStep(r, "addInitScript", "setExtraHTTPHeaders")
SetExtraHTTPHeaders(r) == SetupStep(r, "setExtraHTTPHeaders", "newPage")
NewPage(r) == SetupStep(r, "newPage", FnEntry(r))

\* Mutation: a failed await of fn sends it back to the navigation.
FnStep_RetryNavigation(r, op, next) ==
    /\ pc[r] = op
    /\ UNCHANGED <<family, normalized>>
    /\ \E ok \in BOOLEAN :
          IF ok
          THEN /\ Log(r, Ev(op, browser[r], "ok"))
               /\ pc' = [pc EXCEPT ![r] = next]
               /\ UNCHANGED err
          ELSE /\ Log(r, Ev(op, browser[r], "throw"))
               /\ pc' = [pc EXCEPT ![r] = "goto1"]
               /\ UNCHANGED err

\* An await of fn(page) that is not a navigation: it returns, and fn goes on
\* to `next`, or it throws, and control reaches withPage's finally.
FnStep(r, op, next) ==
    /\ pc[r] = op
    /\ UNCHANGED <<family, normalized>>
    /\ \E ok \in BOOLEAN :
          IF ok
          THEN /\ Log(r, Ev(op, browser[r], "ok"))
               /\ pc' = [pc EXCEPT ![r] = next]
               /\ UNCHANGED err
          ELSE /\ Log(r, Ev(op, browser[r], "throw"))
               /\ pc' = [pc EXCEPT ![r] = "close"]
               /\ err' = [err EXCEPT ![r] = EngineError(op)]

\* await page.setViewportSize({ width, height })   (/v1/screenshot only)
SetViewportSize(r) ==
    /\ FnStep(r, "setViewportSize", "goto1")
    /\ UNCHANGED <<env_API_KEY, req, call, browser, browsers, e, fonts, ret,
                   responses>>

\* What fn does after safeGoto returned.
AfterGoto(r) ==
    IF req[r].endpoint = "screenshot" THEN "title"
    ELSE IF call[r] = "primary" THEN "evaluateFonts"
    ELSE "screenshot"

\* safeGoto, first attempt
Goto1(r) ==
    /\ pc[r] = "goto1"
    /\ \E r1 \in GotoOutcomes :
          /\ Log(r, GotoEv(browser[r], FirstWait, r1))
          /\ pc' = [pc EXCEPT ![r] =
                       IF NeedsSecondAttempt(r1) THEN "goto2" ELSE AfterGoto(r)]
    /\ UNCHANGED <<env_API_KEY, req, call, browser, browsers, err, e, fonts,
                   ret, responses, family, normalized>>

\* safeGoto, second attempt
Goto2(r) ==
    /\ pc[r] = "goto2"
    /\ \E r2 \in GotoOutcomes :
          /\ Log(r, GotoEv(browser[r], SecondWait, r2))
          /\ err' = [err EXCEPT ![r] = SecondAttemptError(r2)]
          /\ pc' = [pc EXCEPT ![r] =
                       IF SecondAttemptError(r2) = "none" THEN AfterGoto(r)
                       ELSE "close"]
    /\ UNCHANGED <<env_API_KEY, req, call, browser, browsers, e, fonts, ret,
                   responses, family, normalized>>

\* resp.status() of the response safeGoto returned
RespStatus(r) ==
    LET g == GotosOf(r, browser[r]) IN g[Len(g)].status

\* const title = await page.title()   (/v1/screenshot only)
Title(r) ==
    /\ FnStep(r, "title", "screenshot")
    /\ UNCHANGED <<env_API_KEY, req, call, browser, browsers, e, fonts, ret,
                   responses>>

\* const buf = await page.screenshot(...); fn returns
TakeScreenshot(r) ==
    /\ FnStep(r, "screenshot", "close")
    /\ ret' = [ret EXCEPT ![r] =
                 IF err'[r] # "none" THEN <<>>
                 ELSE IF req[r].endpoint = "screenshot"
                 THEN <<[title |-> PageTitle, image_base64 |-> ScreenshotBase64,
                         meta |-> [status |-> RespStatus(r)]]>>
                 ELSE <<ScreenshotBase64>>]
    /\ UNCHANGED <<env_API_KEY, req, call, browser, browsers, e, fonts,
                   responses>>

\* const fonts = await page.evaluate(...)
EvaluateFonts(r) ==
    /\ FnStep(r, "evaluateFonts", "evaluateDistorted")
    /\ \E n \in 0..MaxFonts :
          fonts' = [fonts EXCEPT ![r] = IF err'[r] = "none" THEN n ELSE 0]
    /\ UNCHANGED <<env_API_KEY, req, call, browser, browsers, e, ret, responses>>

\* const distorted = await page.evaluate(...); findings and score; fn returns
EvaluateDistorted(r) ==
    /\ FnStep(r, "evaluateDistorted", "close")
    /\ \E d \in 0..MaxDistorted :
          ret' = [ret EXCEPT ![r] =
                    IF err'[r] # "none" THEN <<>>
                    ELSE <<AnalysisResult(req[r].url, RespStatus(r), fonts[r], d)>>]
    /\ fonts' = [fonts EXCEPT ![r] = IF err'[r] = "none" THEN @ ELSE 0]
    /\ UNCHANGED <<env_API_KEY, req, call, browser, browsers, e, responses>>

\* finally { await browser.close(); } and the return or rethrow after it.
\* A close that throws replaces the exception in flight, and the browser
\* has not been confirmed closed.
Close(r) ==
    /\ pc[r] = "close"
    /\ \E ok \in BOOLEAN :
          IF ok
          THEN /\ browsers' = [browsers EXCEPT ![browser[r]].state = "closed"]
               /\ Log(r, Ev("close", browser[r], "ok"))
               /\ IF err[r] = "none"
                     THEN WithPageResolved(r, ret[r][1])
                     ELSE WithPageRejected(r, err[r])
          ELSE /\ UNCHANGED browsers
               /\ Log(r, Ev("close", browser[r], "throw"))
               /\ WithPageRejected(r, EngineError("close"))
    /\ DropFrame(r)
    /\ UNCHANGED <<env_API_KEY, req, family, normalized>>

Next ==
    \E r \in Requests :
        \/ HealthHandler(r)
        \/ ScreenshotHandler(r)
        \/ AnalyzeHandler(r)
        \/ Launch(r)
        \/ NewContext(r)
        \/ AddInitScript(r)
        \/ SetExtraHTTPHeaders(r)
        \/ NewPage(r)
        \/ SetViewportSize(r)
        \/ Goto1(r)
        \/ Goto2(r)
        \/ Title(r)
        \/ TakeScreenshot(r)
        \/ EvaluateFonts(r)
        \/ EvaluateDistorted(r)
        \/ Close(r)

Spec == Init /\ [][Next]_vars

\* ---------------------------------------------------- font-family normalize
\* const normalize = (s) =>
\*   (s ? s.split(',')[0].trim().replace(/^['"]|['"]$/g, '').toLowerCase() : null)
\* inside the fonts page.evaluate.  A string is the sequence of its characters.
Chars == {"a", "B", " ", ",", "'", "\""}
Quotes == {"'", "\""}
Families == {Str(cs) : cs \in UNION {[1..n -> Chars] : n \in 0..MaxLen}}

\* s.split(',')[0]: what stands before the first comma
FirstSegment(cs) ==
    LET commas == {i \in DOMAIN cs : cs[i] = ","}
    IN  IF commas = {} THEN cs
        ELSE SubSeq(cs, 1, (CHOOSE i \in commas : \A j \in commas : i <= j) - 1)

\* .trim(): without the white space at both ends
Trim(cs) ==
    LET solid == {i \in DOMAIN cs : cs[i] # " "}
    IN  IF solid = {} THEN <<>>
        ELSE SubSeq(cs, CHOOSE i \in solid : \A j \in solid : i <= j,
                        CHOOSE i \in solid : \A j \in solid : i >= j)

\* .replace(/^['"]|['"]$/g, ''): one quote off the start, one off the end
StripQuotes(cs) ==
    LET a == IF Len(cs) > 0 /\ cs[1] \in Quotes THEN Tail(cs) ELSE cs
    IN  IF Len(a) > 0 /\ a[Len(a)] \in Quotes THEN SubSeq(a, 1, Len(a) - 1) ELSE a

\* .toLowerCase()
ToLowerCase(cs) == [i \in DOMAIN cs |-> IF cs[i] = "B" THEN "b" ELSE cs[i]]

\* null and the empty string are falsy: s ? ... : null
normalize(s) ==
    IF s.null \/ s.chars = <<>> THEN Null
    ELSE Str(ToLowerCase(StripQuotes(Trim(FirstSegment(s.chars)))))

\* normalize applied to a computed font-family value
NormalizeFamily ==
    /\ ~family.null
    /\ normalized = <<>>
    /\ normalized' = <<normalize(family)>>
    /\ UNCHANGED <<family, serverVars>>

\* normalize applied to what it returned
NormalizeAgain ==
    /\ Len(normalized) = 1
    /\ normalized' = Append(normalized, normalize(normalized[1]))
    /\ UNCHANGED <<family, serverVars>>

InitNormalize ==
    /\ InitServer({})
    /\ family \in Families
    /\ normalized = <<>>

NextNormalize == NormalizeFamily \/ NormalizeAgain

SpecNormalize == InitNormalize /\ [][NextNormalize]_vars

\* The steps of one request.
RequestStep(r) ==
    \/ HealthHandler(r) \/ ScreenshotHandler(r) \/ AnalyzeHandler(r)
    \/ Launch(r) \/ NewContext(r) \/ AddInitScript(r)
    \/ SetExtraHTTPHeaders(r) \/ NewPage(r) \/ SetViewportSize(r)
    \/ Goto1(r) \/ Goto2(r) \/ Title(r) \/ TakeScreenshot(r)
    \/ EvaluateFonts(r) \/ EvaluateDistorted(r) \/ Close(r)

\* Two requests in flight at once, their awaits interleaved in any order.
\* The concurrent runs are those where at most MaxFaults engine calls fail in
\* all, no request carries an Authorization header (no handler reads it), and
\* a page yields at most MaxYield font families and distorted images.
FaultsOf(r) == Len(SelectSeq(trace[r], LAMBDA ev : ev.kind # "ok" /\ ~IsOk(ev)))
WithinConc ==
    /\ FaultsOf("r1") + FaultsOf("r2") <= MaxFaults
    /\ \A r \in Requests :
          /\ req[r].authorization = "" /\ req[r].url # ""
          /\ fonts[r] <= MaxYield
          /\ (Len(ret[r]) = 1 /\ req[r].endpoint = "analyze" /\ call[r] = "primary")
                => ret[r][1].meta.distortedImages <= MaxYield
NextConc ==
    \E r \in Requests :
        \/ HealthHandler(r) /\ WithinConc'
        \/ ScreenshotHandler(r) /\ WithinConc'
        \/ AnalyzeHandler(r) /\ WithinConc'
        \/ Launch(r) /\ WithinConc'
        \/ NewContext(r) /\ WithinConc'
        \/ AddInitScript(r) /\ WithinConc'
        \/ SetExtraHTTPHeaders(r) /\ WithinConc'
        \/ NewPage(r) /\ WithinConc'
        \/ SetViewportSize(r) /\ WithinConc'
        \/ Goto1(r) /\ WithinConc'
        \/ Goto2(r) /\ WithinConc'
        \/ Title(r) /\ WithinConc'
        \/ TakeScreenshot(r) /\ WithinConc'
        \/ EvaluateFonts(r) /\ WithinConc'
        \/ EvaluateDistorted(r) /\ WithinConc'
        \/ Close(r) /\ WithinConc'
SpecConc == InitWith(Requests) /\ [][NextConc]_vars

\* Every engine call eventually returns or throws, and the event loop runs
\* every continuation that is ready: no request waits for ever at an await.
LiveSpec == Spec /\ \A r \in Requests : WF_vars(RequestStep(r))

(***************************************************************************)
(* Properties.  They are stated over the responses and the engine-call     *)
(* trace of each request.                                                  *)
(***************************************************************************)
Done(r) == pc[r] = "done"
Resp(r) == responses[r][1]
Posted(r, endpoint) ==
    req[r].endpoint = endpoint /\ ~(req[r].url \in {Undefined, ""})

\* The positions of the launch calls in the trace of r.
LaunchIdx(r) == {i \in DOMAIN trace[r] : trace[r][i].op = "launch"}
\* The engine calls of the first withPage call of r (the primary session).
PrimaryEnd(r) ==
    LET later == {i \in LaunchIdx(r) : i > 1}
    IN  IF later = {} THEN Len(trace[r])
        ELSE (CHOOSE i \in later : \A j \in later : i <= j) - 1
PrimaryCalls(r) == SubSeq(trace[r], 1, PrimaryEnd(r))
\* The engine calls of the second withPage call of r (the fallback session).
FallbackCalls(r) == SubSeq(trace[r], PrimaryEnd(r) + 1, Len(trace[r]))

Failed(ev) == ev.kind \in {"throw", "null"} \/ (ev.kind = "response" /\ ~(ev.status \in 200..299))

\* The message a failed engine call surfaces with.
MessageOf(ev) ==
    IF ev.op = "goto" /\ ev.kind = "null"
        THEN "No se pudo cargar la URL (status=desconocido)"
    ELSE IF ev.op = "goto" /\ ev.kind = "response"
        THEN "No se pudo cargar la URL (status=" \o ToString(ev.status) \o ")"
    ELSE "playwright: " \o ev.op \o " failed"

\* Whether a withPage call with these engine calls threw, and with what.
Threw(calls) ==
    /\ Len(calls) > 0
    /\ \/ Failed(calls[Len(calls)])
       \/ /\ calls[Len(calls)].op = "close"
          /\ Len(calls) > 1
          /\ Failed(calls[Len(calls) - 1])
MessageThrown(calls) ==
    LET n == Len(calls)
    IN  IF calls[n].op = "close" /\ ~Failed(calls[n])
            THEN MessageOf(calls[n - 1]) ELSE MessageOf(calls[n])
\* Whether a withPage call ran to its end: its last call is a close that
\* returned, after a call of fn's last await that returned.
Succeeded(calls) ==
    /\ Len(calls) > 1
    /\ calls[Len(calls)].op = "close" /\ ~Failed(calls[Len(calls)])
    /\ ~Failed(calls[Len(calls) - 1])

\* C1 (as claimed): when a request has been answered, every browser that was
\* launched for it has been closed.
C1_NoBrowserLeftOpen ==
    \A r \in Requests :
        Done(r) =>
            \A b \in DOMAIN browsers :
                browsers[b].owner = r => browsers[b].state = "closed"

\* The case of C2: /v1/analyze with a target.value, whose primary navigation
\* threw at its first attempt and got a non-ok response at its second.
C2_Case(r) ==
    /\ Posted(r, "analyze")
    /\ LET g == SelectSeq(PrimaryCalls(r), LAMBDA ev : ev.op = "goto")
       IN  /\ Len(g) = 2
           /\ g[1].kind = "throw"
           /\ g[2].kind = "response" /\ ~(g[2].status \in 200..299)

\* C2 (as claimed): in that case the request is answered 502 analyze_blocked
\* with a non-empty screenshot_base64.
C2_AlwaysBlockedWithScreenshot ==
    \A r \in Requests :
        (Done(r) /\ C2_Case(r)) =>
            /\ Resp(r).status = 502
            /\ Resp(r).code = "analyze_blocked"
            /\ Resp(r).screenshot_base64 # ""

\* C2 (amended): in that case the request is answered 502 analyze_blocked
\* with a non-empty screenshot_base64 when the fallback session ran to its end
\* (launch, setup, navigation, capture and close all returned), and 500
\* analyze_failed otherwise.
C2_BlockedOrFailed ==
    \A r \in Requests :
        (Done(r) /\ C2_Case(r)) =>
            IF Succeeded(FallbackCalls(r))
            THEN /\ Resp(r).status = 502
                 /\ Resp(r).code = "analyze_blocked"
                 /\ Resp(r).screenshot_base64 # ""
            ELSE /\ Resp(r).status = 500
                 /\ Resp(r).code = "analyze_failed"

C2_Witness ==
    \E r \in Requests :
        Done(r) /\ C2_Case(r) /\ Resp(r).status = 502
            /\ Resp(r).screenshot_base64 # ""

\* C3: on each page safeGoto makes at most two page.goto calls: the first
\* with networkidle and 60000 ms, the second with domcontentloaded and 60000
\* ms; the second is made exactly when the first threw or gave no ok
\* response; there is never a third.
C3_TwoTierNavigation ==
    \A r \in Requests : \A b \in DOMAIN browsers :
        LET g == GotosOf(r, b)
        IN  /\ Len(g) <= 2
            /\ Len(g) >= 1 =>
                  /\ g[1].waitUntil = "networkidle" /\ g[1].timeout = 60000
                  /\ (Len(g) = 2 \/ (pc[r] = "goto2" /\ browser[r] = b))
                        <=> Failed(g[1])
            /\ Len(g) = 2 =>
                  g[2].waitUntil = "domcontentloaded" /\ g[2].timeout = 60000

C3_Witness ==
    \E r \in Requests : \E b \in DOMAIN browsers :
        /\ Len(GotosOf(r, b)) = 2
        /\ \E c \in DOMAIN browsers :
              Len(GotosOf(r, c)) = 1 /\ pc[r] # "goto2"

\* The case of C4: both attempts of the running safeGoto have failed.
C4_BothFailed(r) ==
    /\ pc[r] = "close"
    /\ Len(GotosOf(r, browser[r])) = 2
    /\ Failed(GotosOf(r, browser[r])[2])

\* The status a navigation attempt saw, 0 if it saw none.
StatusSeen(ev) == IF ev.kind = "response" THEN ev.status ELSE 0

C5_FallbackAfterPrimaryFailure ==
    \A r \in Requests :
        (Posted(r, "analyze") /\ Threw(PrimaryCalls(r)) /\ call[r] # "primary") =>
            /\ IF Done(r) THEN Len(FallbackCalls(r)) >= 1
                          ELSE call[r] = "fallback"
            /\ \A i \in DOMAIN FallbackCalls(r) :
                  /\ FallbackCalls(r)[i].op # "evaluateFonts"
                  /\ \A j \in DOMAIN PrimaryCalls(r) :
                        PrimaryCalls(r)[j].session # 0 =>
                            FallbackCalls(r)[i].session # PrimaryCalls(r)[j].session
            /\ Done(r) =>
                  IF Succeeded(FallbackCalls(r))
                  THEN /\ Resp(r).status = 502
                       /\ Resp(r).code = "analyze_blocked"
                       /\ Resp(r).screenshot_base64 = ScreenshotBase64
                       /\ Resp(r).message =
                            "La pagina bloqueo el analisis DOM ("
                              \o MessageThrown(PrimaryCalls(r))
                              \o "). Se adjunta mini-captura para auditoria visual."
                  ELSE /\ Resp(r).status = 500
                       /\ Resp(r).code = "analyze_failed"

C5_Witness ==
    \E r \in Requests :
        /\ Posted(r, "analyze") /\ Done(r)
        /\ Threw(PrimaryCalls(r))
        /\ Len(PrimaryCalls(r)) > 1
        /\ PrimaryCalls(r)[Len(PrimaryCalls(r)) - 1].op = "evaluateDistorted"
        /\ Succeeded(FallbackCalls(r))
        /\ Resp(r).status = 502

\* C6 (as claimed): with API_KEY configured, a request of any endpoint whose
\* Authorization header is not exactly "Bearer <API_KEY>" is answered 401
\* unauthorized and launches no session; with API_KEY not configured no
\* request is answered 401.
C6_BearerGate ==
    \A r \in Requests :
        Done(r) =>
            IF env_API_KEY # "" /\ req[r].authorization # "Bearer " \o env_API_KEY
            THEN /\ Resp(r).status = 401
                 /\ Resp(r).code = "unauthorized"
                 /\ LaunchIdx(r) = {}
            ELSE env_API_KEY = "" => Resp(r).status # 401

\* C7: the score of an analysis with f font families and d distorted images
\* is 100 - 10*d - 5*max(0, f-3), raised to 50 when it is below 50; it lies
\* in 50..100; 0 distorted and 2 families give 100, 2 and 5 give 70.
C7_Score ==
    \A r \in Requests :
        (Done(r) /\ req[r].endpoint = "analyze" /\ Resp(r).status = 200) =>
            LET f == Resp(r).meta.fontsDetected
                d == Resp(r).meta.distortedImages
                excess == IF f > 3 THEN f - 3 ELSE 0
                raw == 100 - 10 * d - 5 * excess
            IN  /\ Resp(r).score = (IF raw < 50 THEN 50 ELSE raw)
                /\ Resp(r).score \in 50..100
                /\ (d = 0 /\ f = 2) => Resp(r).score = 100
                /\ (d = 2 /\ f = 5) => Resp(r).score = 70

C7_Witness ==
    \E r \in Requests :
        /\ Done(r) /\ req[r].endpoint = "analyze" /\ Resp(r).status = 200
        /\ Resp(r).meta.fontsDetected = 5 /\ Resp(r).meta.distortedImages = 5
        /\ Resp(r).score = 50

\* Whether some call of op returned in the trace of r.
Returned(r, op) ==
    \E i \in DOMAIN trace[r] : trace[r][i].op = op /\ ~Failed(trace[r][i])

\* C8 (as claimed): /v1/screenshot with a url answers 200 {ok:true, title,
\* image_base64, meta} exactly when session acquisition, navigation and
\* capture all succeeded, and 500 screenshot_failed otherwise, and launches
\* no second session.
C8_OkIffCaptured ==
    \A r \in Requests :
        (Done(r) /\ Posted(r, "screenshot")) =>
            /\ Resp(r).status = 200 <=> Returned(r, "screenshot")
            /\ Resp(r).status # 200 =>
                  Resp(r).status = 500 /\ Resp(r).code = "screenshot_failed"
            /\ Cardinality(LaunchIdx(r)) = 1

\* C8 (amended): /v1/screenshot with a url answers 200 {ok:true, title,
\* image_base64, meta} exactly when session acquisition, navigation, capture
\* and the closing of the session all succeeded; any failure, of the close
\* too, gives 500 screenshot_failed with the message of the error withPage
\* threw; no second session is launched.
C8_OkIffCapturedAndClosed ==
    \A r \in Requests :
        (Done(r) /\ Posted(r, "screenshot")) =>
            /\ Resp(r).status = 200 <=>
                  /\ Returned(r, "launch") /\ Returned(r, "newPage")
                  /\ \E i \in DOMAIN trace[r] :
                        trace[r][i].op = "goto" /\ ~Failed(trace[r][i])
                  /\ Returned(r, "screenshot")
                  /\ Returned(r, "close")
            /\ Resp(r).status = 200 =>
                  /\ Resp(r).ok = TRUE
                  /\ Resp(r).image_base64 # "" /\ Resp(r).title = PageTitle
                  /\ Resp(r).meta.status \in 200..299
            /\ Resp(r).status # 200 =>
                  /\ Resp(r).status = 500 /\ Resp(r).code = "screenshot_failed"
                  /\ Resp(r).message = MessageThrown(trace[r])
            /\ Cardinality(LaunchIdx(r)) = 1

C8_Witness ==
    \E r \in Requests :
        /\ Done(r) /\ Posted(r, "screenshot")
        /\ Returned(r, "screenshot")
        /\ trace[r][Len(trace[r])].op = "close"
        /\ Failed(trace[r][Len(trace[r])])
        /\ Resp(r).status = 500

\* C9: /v1/screenshot without url and /v1/analyze without target.value are
\* answered 400 bad_request, and no session is launched and no navigation
\* attempted for them.
C9_BadRequest ==
    \A r \in Requests :
        (req[r].endpoint \in {"screenshot", "analyze"} /\ req[r].url = Undefined) =>
            /\ Done(r)
            /\ Resp(r).status = 400 /\ Resp(r).code = "bad_request"
            /\ trace[r] = <<>>
            /\ \A b \in DOMAIN browsers : browsers[b].owner # r

C9_Witness ==
    \E r \in Requests :
        /\ req[r].endpoint = "analyze" /\ req[r].url = Undefined
        /\ Done(r) /\ Resp(r).status = 400

\* C10 (as claimed): after a launch failed in a request, no further launch is
\* attempted for it and it is answered 500.
C10_LaunchFailureFatal ==
    \A r \in Requests : \A i \in LaunchIdx(r) :
        Failed(trace[r][i]) =>
            /\ \A j \in LaunchIdx(r) : j <= i
            /\ Done(r) /\ Resp(r).status = 500

\* C10 (amended): withPage does not retry a launch.  In /v1/screenshot a
\* failed launch ends the request with 500 and no further launch.  In
\* /v1/analyze a failed launch of the primary session is followed by exactly
\* one launch attempt, that of the fallback session (after which the answer is
\* 502 or 500), and a failed launch of the fallback session ends the request
\* with 500 analyze_failed and no further launch.
C10_LaunchFailureNotRetriedByWithPage ==
    \A r \in Requests : \A i \in LaunchIdx(r) :
        Failed(trace[r][i]) =>
            IF req[r].endpoint = "analyze" /\ i = 1
            THEN /\ Cardinality(LaunchIdx(r)) <= 2
                 /\ IF Done(r)
                       THEN LaunchIdx(r) = {1, 2} /\ Resp(r).status \in {500, 502}
                       ELSE LaunchIdx(r) = {1} => pc[r] = "launch"
            ELSE /\ i = Len(trace[r])
                 /\ Done(r) /\ Resp(r).status = 500
                 /\ Resp(r).code = IF req[r].endpoint = "analyze"
                                      THEN "analyze_failed" ELSE "screenshot_failed"

C10_Witness ==
    \E r \in Requests :
        /\ LaunchIdx(r) = {1, 2}
        /\ Failed(trace[r][1]) /\ Failed(trace[r][2])
        /\ Done(r) /\ Resp(r).status = 500

\* A failed engine call that is not a navigation.
NonNavFailure(ev) == ev.op # "goto" /\ Failed(ev)

\* C11 (as claimed): after a failure that is not a navigation failure the
\* request makes no further navigation attempt.
C11_NoNavigationAfterOtherFailure ==
    \A r \in Requests : \A i, j \in DOMAIN trace[r] :
        (i < j /\ NonNavFailure(trace[r][i])) => trace[r][j].op # "goto"

\* C11 (amended): a failure that is not a navigation failure is not retried
\* and ends its session: no navigation attempt follows it in that session,
\* and none at all in /v1/screenshot or after a failure of the fallback
\* session.  In /v1/analyze a failure in the primary session is followed by
\* the navigation of the fallback session, of at most two attempts.
C11_NoNavigationInSessionAfterOtherFailure ==
    \A r \in Requests : \A i, j \in DOMAIN trace[r] :
        (i < j /\ NonNavFailure(trace[r][i]) /\ trace[r][j].op = "goto") =>
            /\ req[r].endpoint = "analyze"
            /\ i <= PrimaryEnd(r) /\ j > PrimaryEnd(r)
            /\ trace[r][j].session # trace[r][i].session
            /\ Len(SelectSeq(FallbackCalls(r), LAMBDA ev : ev.op = "goto")) <= 2

C11_Witness ==
    \E r \in Requests : \E i, j \in DOMAIN trace[r] :
        /\ i < j
        /\ trace[r][i].op = "evaluateFonts" /\ Failed(trace[r][i])
        /\ trace[r][j].op = "goto"
        /\ \E k \in DOMAIN trace[r] :
              k > j /\ trace[r][k].op = "screenshot" /\ Failed(trace[r][k])
                    /\ Done(r)

\* C15: in every analysis result typography is 70 when more than 3 font
\* families were found and 95 otherwise, and logos is 65 when at least one
\* distorted image was found and 95 otherwise, whatever the score is.
C15_CategoryTiers ==
    \A r \in Requests :
        (Done(r) /\ req[r].endpoint = "analyze" /\ Resp(r).status = 200) =>
            /\ Resp(r).byCategory.typography =
                  (IF Resp(r).meta.fontsDetected > 3 THEN 70 ELSE 95)
            /\ Resp(r).byCategory.logos =
                  (IF Resp(r).meta.distortedImages >= 1 THEN 65 ELSE 95)

C15_Witness ==
    \E r \in Requests :
        /\ Done(r) /\ req[r].endpoint = "analyze" /\ Resp(r).status = 200
        /\ Resp(r).meta.fontsDetected = 3 /\ Resp(r).meta.distortedImages = 1
        /\ Resp(r).byCategory = [typography |-> 95, logos |-> 65]

\* C16: the findings are one medium B1 when more than 3 families were found,
\* then one high A1 per distorted image, in the order of the evaluation and
\* with that image's evidence; so there are distortedCount (+1 with B1)
\* findings, and B1 comes before every A1.
C16_Findings ==
    \A r \in Requests :
        (Done(r) /\ req[r].endpoint = "analyze" /\ Resp(r).status = 200) =>
            LET f == Resp(r).meta.fontsDetected
                d == Resp(r).meta.distortedImages
                fs == Resp(r).findings
                b == IF f > 3 THEN 1 ELSE 0
            IN  /\ Len(fs) = d + b
                /\ b = 1 => fs[1].id = "B1" /\ fs[1].severity = "medium"
                /\ \A i \in 1..d :
                      /\ fs[b + i].id = "A1" /\ fs[b + i].severity = "high"
                      /\ fs[b + i].evidence = i
                /\ \A i \in 1..Len(fs) : fs[i].id = "B1" => i = 1

C16_Witness ==
    \E r \in Requests :
        /\ Done(r) /\ req[r].endpoint = "analyze" /\ Resp(r).status = 200
        /\ Resp(r).meta.fontsDetected = 4 /\ Resp(r).meta.distortedImages = 2
        /\ Len(Resp(r).findings) = 3

\* The browsers of r that are open.
OpenBrowsers(r) ==
    {b \in DOMAIN browsers : browsers[b].owner = r /\ browsers[b].state = "open"}

\* C17 (as claimed): a request has at most one browser open at any moment,
\* the fallback session of /v1/analyze is launched only once the primary
\* one is closed, and a request launches at most two sessions, one in
\* /v1/screenshot.
C17_OneOpenSessionPerRequest ==
    \A r \in Requests :
        /\ Cardinality(OpenBrowsers(r)) <= 1
        /\ Cardinality(LaunchIdx(r)) <=
              (IF req[r].endpoint = "screenshot" THEN 1 ELSE 2)
        /\ (call[r] = "fallback" /\ pc[r] = "launch") => OpenBrowsers(r) = {}

\* The navigation attempts of r so far.
NavAttempts(r) == Len(SelectSeq(trace[r], LAMBDA ev : ev.op = "goto"))

\* C18: when every engine call eventually returns or throws, every request
\* is eventually answered, exactly once: it never has two responses, it has
\* one exactly when its handler is through, and it makes at most 4 navigation
\* attempts in /v1/analyze, 2 in a session and 2 in /v1/screenshot.
C18_AnsweredExactlyOnce ==
    /\ [](\A r \in Requests :
            /\ Len(responses[r]) <= 1
            /\ Done(r) <=> Len(responses[r]) = 1
            /\ NavAttempts(r) <=
                  (IF req[r].endpoint = "analyze" THEN 4
                   ELSE IF req[r].endpoint = "screenshot" THEN 2 ELSE 0)
            /\ \A b \in DOMAIN browsers : Len(GotosOf(r, b)) <= 2)
    /\ \A r \in Requests : (pc[r] # "absent") ~> (Len(responses[r]) = 1)

C18_Witness ==
    \E r \in Requests :
        /\ Done(r) /\ Len(responses[r]) = 1
        /\ req[r].endpoint = "analyze" /\ NavAttempts(r) = 4

\* What belongs to request r: its handler's locals, its trace, its responses.
Slots(r) ==
    <<req[r], pc[r], call[r], browser[r], trace[r], err[r], e[r], fonts[r],
      ret[r], responses[r]>>
\* Request r takes no part in the step.
Idle(r) == pc'[r] = pc[r] /\ trace'[r] = trace[r]
\* The step leaves what belongs to r, and the browsers r launched, alone.
Untouched(r) ==
    /\ Slots(r)' = Slots(r)
    /\ \A b \in DOMAIN browsers :
          browsers[b].owner = r => (b \in DOMAIN browsers' /\ browsers'[b] = browsers[b])

C14_SessionsPrivate ==
    /\ [](\A r \in Requests :
            /\ \A i \in DOMAIN trace[r] :
                  trace[r][i].session # 0 =>
                      browsers[trace[r][i].session].owner = r
            /\ browser[r] # 0 => browsers[browser[r]].owner = r
            /\ \A q \in Requests \ {r} :
                  browser[r] # 0 => browser[q] # browser[r])
    /\ [][/\ env_API_KEY' = env_API_KEY
          /\ \A r \in Requests : Idle(r) => Untouched(r)
          /\ \E r \in Requests : \A q \in Requests \ {r} : Idle(q)]_vars

C14_Witness ==
    /\ browser["r1"] # 0 /\ browser["r2"] # 0
    /\ browser["r1"] # browser["r2"]
    /\ pc["r1"] = "screenshot" /\ pc["r2"] = "evaluateDistorted"
    /\ browsers[browser["r1"]].state = "open"
    /\ browsers[browser["r2"]].state = "open"
    /\ browser["r2"] < browser["r1"]

\* C13 (as claimed): normalize is idempotent on every family string over
\* letters, space, comma and the two quotes: normalizing what it returned
\* gives that again.
C13_NormalizeIdempotent ==
    Len(normalized) = 2 => normalized[2] = normalized[1]

====
